---- MODULE Spec2Model ----
(***************************************************************************)
(* Model of src/src/main.rs: the transaction processor of read_csv and its *)
(* five handlers try_deposit, try_withdrawal, try_dispute, try_resolve and *)
(* try_chargeback, working on transactions_map (the ledger) and            *)
(* client_data_map (the accounts).                                         *)
(*                                                                         *)
(* Amounts are f64.  A finite f64 value v is written here as the pair      *)
(* <<h, l>> of integers with v = h * 2^53 + l, |l| small, and NaN as a     *)
(* triple.  Every finite value the model reaches is an integer that f64    *)
(* represents exactly, and FAdd / FSub compute the exact sum and round it  *)
(* once to 53 significant bits, ties to even, as the hardware does.  The   *)
(* comparisons are those of f64: every comparison with NaN is false.       *)
(***************************************************************************)
EXTENDS Integers, Sequences, FiniteSets, TLC

VARIABLES
    transactions_map,   \* HashMap<u32, Transaction>: accepted deposits and withdrawals
    client_data_map,    \* HashMap<u16, ClientData>
    status,             \* "running", "panicked" (unwrap of None), "aborted" (row? failed)
    charged,            \* history: ids of the transactions a chargeback succeeded on
    nread,              \* number of rows read so far (a Bulk run not counted)
    bulk,               \* state of the entries of the ledger with ids beyond TxIds
    sat                 \* history: clients whose total_locks has hit the u16 ceiling

vars == <<transactions_map, client_data_map, status, charged, nread, bulk, sat>>

(***************************************************************************)
(* Bounds of the model.                                                    *)
(***************************************************************************)
MaxTx == 2          \* transaction ids 1..MaxTx
MaxClient == 2      \* client ids 1..MaxClient
MaxFeed == 3        \* rows in the feed
MaxLongFeed == 2    \* rows read one by one in a feed that has a Bulk run

TxIds == 1..MaxTx
ClientIds == 1..MaxClient

\* u16::MAX, the largest total_locks
U16MAX == 65535

(***************************************************************************)
(* f64 arithmetic on the values h * 2^53 + l.                              *)
(***************************************************************************)

F(h, l) == <<h, l>>
Zero == F(0, 0)
Big == F(1, 2)      \* 9007199254740994.0 = 2^53 + 2
NaN == <<0, 0, 0>>  \* f64::NAN, what the amount field "NaN" parses to
is_nan(v) == Len(v) = 3

RECURSIVE Log2(_)
Log2(n) == IF n <= 1 THEN 0 ELSE 1 + Log2(n \div 2)

RECURSIVE Pow2(_)
Pow2(e) == IF e = 0 THEN 1 ELSE 2 * Pow2(e - 1)

\* -v; the negation of NaN is NaN.  f64 has a -0.0, which this model has not:
\* no handler negates, a row whose amount is -0.0 is refused by the check
\* amount <= 0.0, and a sum or difference of values that are not -0.0 is not
\* -0.0, so no balance ever is -0.0; FNeg is applied to values other than
\* zero only
FNeg(v) == IF is_nan(v) THEN NaN ELSE F(-v[1], -v[2])

\* a < b, a <= b and a == b of f64
FLt(a, b) ==
    /\ ~is_nan(a) /\ ~is_nan(b)
    /\ a[1] < b[1] \/ (a[1] = b[1] /\ a[2] < b[2])
FEq(a, b) == ~is_nan(a) /\ ~is_nan(b) /\ a = b
FLe(a, b) == FEq(a, b) \/ FLt(a, b)

\* n / u rounded to the nearest integer, ties to the even one
RoundHalfEven(n, u) ==
    LET q == n \div u
        r == n - q * u
    IN  IF 2 * r < u THEN q
        ELSE IF 2 * r > u THEN q + 1
        ELSE IF q % 2 = 0 THEN q ELSE q + 1

\* the f64 nearest to h * 2^53 + l, for h >= 1: the spacing of the f64 values
\* in the binade of the value is ulp, and h * 2^53 is a multiple of it
RoundPos(v) ==
    LET h == v[1]
        l == v[2]
        e == Log2(h)
        ulp == IF l < 0 /\ h = Pow2(e) THEN Pow2(e) ELSE Pow2(e + 1)
    IN  F(h, ulp * RoundHalfEven(l, ulp))

FRound(v) ==
    IF v[1] = 0 THEN v
    ELSE IF v[1] > 0 THEN RoundPos(v)
    ELSE FNeg(RoundPos(FNeg(v)))

FAdd(a, b) ==
    IF is_nan(a) \/ is_nan(b) THEN NaN
    ELSE FRound(F(a[1] + b[1], a[2] + b[2]))
FSub(a, b) ==
    IF is_nan(a) \/ is_nan(b) THEN NaN
    ELSE FRound(F(a[1] - b[1], a[2] - b[2]))

(***************************************************************************)
(* Option<f64>: None is <<>>, Some(v) is <<v>>.                            *)
(***************************************************************************)
None == <<>>
Some(v) == <<v>>
is_none(o) == o = <<>>
unwrap(o) == o[1]

(***************************************************************************)
(* The decoded rows.  is_disputed is a field of the row that serde fills   *)
(* from a fifth column of the feed, if there is one, and with false        *)
(* otherwise.  The amount field is empty or anything str::parse::<f64>     *)
(* takes, which includes "NaN".                                            *)
(***************************************************************************)
Kinds == {"deposit", "withdrawal", "dispute", "resolve", "chargeback", "other"}
InAmounts == {None, Some(Zero), Some(F(0, 1)), Some(Big), Some(NaN)}
InDisputed == BOOLEAN

\* the amount column is empty in the rows that are not deposits or withdrawals
AmountsOf(kind) ==
    IF kind \in {"deposit", "withdrawal"} THEN InAmounts ELSE {None}

\* only a deposit or a withdrawal is stored, with the is_disputed it came with;
\* no handler reads the is_disputed of the row itself
DisputedOf(kind) ==
    IF kind \in {"deposit", "withdrawal"} THEN InDisputed ELSE {FALSE}

Transaction ==
    UNION {[tx_id : TxIds, tx_type : {kind}, client_id : ClientIds,
            amount : AmountsOf(kind), is_disputed : DisputedOf(kind)] : kind \in Kinds}

ClientData(a, h, t, n) ==
    [available |-> a, held |-> h, total |-> t, total_locks |-> n]

\* what a handler hands back: its Result and the two maps as it leaves them
Ok(tm, cm) == [res |-> "ok", tm |-> tm, cm |-> cm]
Err(tm, cm) == [res |-> "err", tm |-> tm, cm |-> cm]
Panic(tm, cm) == [res |-> "panic", tm |-> tm, cm |-> cm]

\* HashMap::insert
insert(m, k, v) == (k :> v) @@ m

\* total_locks + 1 as wrapping_add computes it
lock_add_wrapping(n) == (n + 1) % (U16MAX + 1)

\* u16::checked_add(1).unwrap_or(u16::MAX) and checked_sub(1).unwrap_or(0)
lock_add(n) == IF n + 1 > U16MAX THEN U16MAX ELSE n + 1
lock_sub(n) == IF n - 1 < 0 THEN 0 ELSE n - 1

try_deposit(tm, cm, t) ==
    IF t.tx_id \in DOMAIN tm THEN Err(tm, cm)
    ELSE IF is_none(t.amount) THEN Panic(tm, cm)
    ELSE LET amount == unwrap(t.amount) IN
    IF FLe(amount, Zero) THEN Err(tm, cm)
    ELSE IF t.client_id \in DOMAIN cm
    THEN LET cd == cm[t.client_id] IN
         IF cd.total_locks > 0 THEN Err(tm, cm)
         ELSE Ok(insert(tm, t.tx_id, t),
                 insert(cm, t.client_id,
                        [cd EXCEPT !.available = FAdd(cd.available, amount),
                                   !.total = FAdd(cd.total, amount)]))
    ELSE Ok(insert(tm, t.tx_id, t),
            insert(cm, t.client_id, ClientData(amount, Zero, amount, 0)))

\* try_withdrawal without the contains_key check: the insert overwrites
try_withdrawal_overwrite(tm, cm, t) ==
    IF is_none(t.amount) THEN Panic(tm, cm)
    ELSE LET amount == unwrap(t.amount) IN
    IF FLe(amount, Zero) THEN Err(tm, cm)
    ELSE IF t.client_id \in DOMAIN cm
    THEN LET cd == cm[t.client_id] IN
         IF cd.total_locks > 0 THEN Err(tm, cm)
         ELSE IF FLt(cd.available, Zero) THEN Err(tm, cm)
         ELSE IF FLe(amount, cd.available)
         THEN Ok(insert(tm, t.tx_id, t),
                 insert(cm, t.client_id,
                        [cd EXCEPT !.available = FSub(cd.available, amount),
                                   !.total = FSub(cd.total, amount)]))
         ELSE Err(tm, cm)
    ELSE Err(tm, cm)

\* try_withdrawal that forgets cd.total -= amount
try_withdrawal_total(tm, cm, t) ==
    IF t.tx_id \in DOMAIN tm THEN Err(tm, cm)
    ELSE IF is_none(t.amount) THEN Panic(tm, cm)
    ELSE LET amount == unwrap(t.amount) IN
    IF FLe(amount, Zero) THEN Err(tm, cm)
    ELSE IF t.client_id \in DOMAIN cm
    THEN LET cd == cm[t.client_id] IN
         IF cd.total_locks > 0 THEN Err(tm, cm)
         ELSE IF FLt(cd.available, Zero) THEN Err(tm, cm)
         ELSE IF FLe(amount, cd.available)
         THEN Ok(insert(tm, t.tx_id, t),
                 insert(cm, t.client_id,
                        [cd EXCEPT !.available = FSub(cd.available, amount)]))
         ELSE Err(tm, cm)
    ELSE Err(tm, cm)

try_withdrawal(tm, cm, t) ==
    IF t.tx_id \in DOMAIN tm THEN Err(tm, cm)
    ELSE IF is_none(t.amount) THEN Panic(tm, cm)
    ELSE LET amount == unwrap(t.amount) IN
    IF FLe(amount, Zero) THEN Err(tm, cm)
    ELSE IF t.client_id \in DOMAIN cm
    THEN LET cd == cm[t.client_id] IN
         IF cd.total_locks > 0 THEN Err(tm, cm)
         ELSE IF FLt(cd.available, Zero) THEN Err(tm, cm)
         ELSE IF FLe(amount, cd.available)
         THEN Ok(insert(tm, t.tx_id, t),
                 insert(cm, t.client_id,
                        [cd EXCEPT !.available = FSub(cd.available, amount),
                                   !.total = FSub(cd.total, amount)]))
         ELSE Err(tm, cm)
    ELSE Err(tm, cm)

\* try_dispute that files a dispute of an unknown id as a new entry of the
\* ledger
try_dispute_records(tm, cm, t) ==
    IF t.tx_id \in DOMAIN tm
    THEN LET te == tm[t.tx_id] IN
         IF te.is_disputed THEN Err(tm, cm)
         ELSE IF te.client_id # t.client_id THEN Err(tm, cm)
         ELSE IF t.client_id \in DOMAIN cm
         THEN LET cd == cm[t.client_id] IN
              IF is_none(te.amount) THEN Panic(tm, cm)
              ELSE LET amount == unwrap(te.amount) IN
              Ok(insert(tm, t.tx_id, [te EXCEPT !.is_disputed = TRUE]),
                 insert(cm, t.client_id,
                        [cd EXCEPT !.available = FSub(cd.available, amount),
                                   !.held = FAdd(cd.held, amount),
                                   !.total_locks = lock_add(cd.total_locks)]))
         ELSE Err(tm, cm)
    ELSE Err(insert(tm, t.tx_id, t), cm)

\* try_dispute that takes disputes of deposits only
try_dispute_deposits(tm, cm, t) ==
    IF t.tx_id \in DOMAIN tm
    THEN LET te == tm[t.tx_id] IN
         IF te.is_disputed THEN Err(tm, cm)
         ELSE IF te.client_id # t.client_id THEN Err(tm, cm)
         ELSE IF te.tx_type # "deposit" THEN Err(tm, cm)
         ELSE IF t.client_id \in DOMAIN cm
         THEN LET cd == cm[t.client_id] IN
              IF is_none(te.amount) THEN Panic(tm, cm)
              ELSE LET amount == unwrap(te.amount) IN
              Ok(insert(tm, t.tx_id, [te EXCEPT !.is_disputed = TRUE]),
                 insert(cm, t.client_id,
                        [cd EXCEPT !.available = FSub(cd.available, amount),
                                   !.held = FAdd(cd.held, amount),
                                   !.total_locks = lock_add(cd.total_locks)]))
         ELSE Err(tm, cm)
    ELSE Err(tm, cm)

\* try_dispute that sets is_disputed before it compares the client ids
try_dispute_flagfirst(tm, cm, t) ==
    IF t.tx_id \in DOMAIN tm
    THEN LET te == tm[t.tx_id] IN
         IF te.is_disputed THEN Err(tm, cm)
         ELSE IF te.client_id # t.client_id
         THEN Err(insert(tm, t.tx_id, [te EXCEPT !.is_disputed = TRUE]), cm)
         ELSE IF t.client_id \in DOMAIN cm
         THEN LET cd == cm[t.client_id] IN
              IF is_none(te.amount) THEN Panic(tm, cm)
              ELSE LET amount == unwrap(te.amount) IN
              Ok(insert(tm, t.tx_id, [te EXCEPT !.is_disputed = TRUE]),
                 insert(cm, t.client_id,
                        [cd EXCEPT !.available = FSub(cd.available, amount),
                                   !.held = FAdd(cd.held, amount),
                                   !.total_locks = lock_add(cd.total_locks)]))
         ELSE Err(tm, cm)
    ELSE Err(tm, cm)

try_dispute(tm, cm, t) ==
    IF t.tx_id \in DOMAIN tm
    THEN LET te == tm[t.tx_id] IN
         IF te.is_disputed THEN Err(tm, cm)
         ELSE IF te.client_id # t.client_id THEN Err(tm, cm)
         ELSE IF t.client_id \in DOMAIN cm
         THEN LET cd == cm[t.client_id] IN
              IF is_none(te.amount) THEN Panic(tm, cm)
              ELSE LET amount == unwrap(te.amount) IN
              Ok(insert(tm, t.tx_id, [te EXCEPT !.is_disputed = TRUE]),
                 insert(cm, t.client_id,
                        [cd EXCEPT !.available = FSub(cd.available, amount),
                                   !.held = FAdd(cd.held, amount),
                                   !.total_locks = lock_add(cd.total_locks)]))
         ELSE Err(tm, cm)
    ELSE Err(tm, cm)

\* try_resolve without the comparison of the client ids: the resolve goes to
\* the account of the client of the transaction
try_resolve_owner(tm, cm, t) ==
    IF t.tx_id \in DOMAIN tm
    THEN LET te == tm[t.tx_id] IN
         IF ~te.is_disputed THEN Err(tm, cm)
         ELSE IF te.client_id \in DOMAIN cm
         THEN LET cd == cm[te.client_id] IN
              IF is_none(te.amount) THEN Panic(tm, cm)
              ELSE LET amount == unwrap(te.amount) IN
              Ok(insert(tm, t.tx_id, [te EXCEPT !.is_disputed = FALSE]),
                 insert(cm, te.client_id,
                        [cd EXCEPT !.available = FAdd(cd.available, amount),
                                   !.held = FSub(cd.held, amount),
                                   !.total_locks = lock_sub(cd.total_locks)]))
         ELSE Err(tm, cm)
    ELSE Err(tm, cm)

try_resolve(tm, cm, t) ==
    IF t.tx_id \in DOMAIN tm
    THEN LET te == tm[t.tx_id] IN
         IF ~te.is_disputed THEN Err(tm, cm)
         ELSE IF te.client_id # t.client_id THEN Err(tm, cm)
         ELSE IF t.client_id \in DOMAIN cm
         THEN LET cd == cm[t.client_id] IN
              IF is_none(te.amount) THEN Panic(tm, cm)
              ELSE LET amount == unwrap(te.amount) IN
              Ok(insert(tm, t.tx_id, [te EXCEPT !.is_disputed = FALSE]),
                 insert(cm, t.client_id,
                        [cd EXCEPT !.available = FAdd(cd.available, amount),
                                   !.held = FSub(cd.held, amount),
                                   !.total_locks = lock_sub(cd.total_locks)]))
         ELSE Err(tm, cm)
    ELSE Err(tm, cm)

\* try_chargeback that refuses to give back more than is held
try_chargeback_held(tm, cm, t) ==
    IF t.tx_id \in DOMAIN tm
    THEN LET te == tm[t.tx_id] IN
         IF ~te.is_disputed THEN Err(tm, cm)
         ELSE IF te.client_id # t.client_id THEN Err(tm, cm)
         ELSE IF t.client_id \in DOMAIN cm
         THEN LET cd == cm[t.client_id] IN
              IF is_none(te.amount) THEN Panic(tm, cm)
              ELSE LET amount == unwrap(te.amount) IN
              IF FLt(cd.held, amount) THEN Err(tm, cm)
              ELSE Ok(tm,
                      insert(cm, t.client_id,
                             [cd EXCEPT !.held = FSub(cd.held, amount),
                                        !.total = FSub(cd.total, amount)]))
         ELSE Err(tm, cm)
    ELSE Err(tm, cm)

\* try_chargeback that takes the reversed transaction out of the ledger
try_chargeback_removes(tm, cm, t) ==
    IF t.tx_id \in DOMAIN tm
    THEN LET te == tm[t.tx_id] IN
         IF ~te.is_disputed THEN Err(tm, cm)
         ELSE IF te.client_id # t.client_id THEN Err(tm, cm)
         ELSE IF t.client_id \in DOMAIN cm
         THEN LET cd == cm[t.client_id] IN
              IF is_none(te.amount) THEN Panic(tm, cm)
              ELSE LET amount == unwrap(te.amount) IN
              Ok([i \in DOMAIN tm \ {t.tx_id} |-> tm[i]],
                 insert(cm, t.client_id,
                        [cd EXCEPT !.held = FSub(cd.held, amount),
                                   !.total = FSub(cd.total, amount)]))
         ELSE Err(tm, cm)
    ELSE Err(tm, cm)

try_chargeback(tm, cm, t) ==
    IF t.tx_id \in DOMAIN tm
    THEN LET te == tm[t.tx_id] IN
         IF ~te.is_disputed THEN Err(tm, cm)
         ELSE IF te.client_id # t.client_id THEN Err(tm, cm)
         ELSE IF t.client_id \in DOMAIN cm
         THEN LET cd == cm[t.client_id] IN
              IF is_none(te.amount) THEN Panic(tm, cm)
              ELSE LET amount == unwrap(te.amount) IN
              Ok(tm,
                 insert(cm, t.client_id,
                        [cd EXCEPT !.held = FSub(cd.held, amount),
                                   !.total = FSub(cd.total, amount)]))
         ELSE Err(tm, cm)
    ELSE Err(tm, cm)

(***************************************************************************)
(* read_csv: the match on tx_type, and the loop over the rows.  A handler's *)
(* Err is dropped (continue), a row of any other type is skipped, a panic  *)
(* ends the process.                                                       *)
(***************************************************************************)
Skip(tm, cm) == [res |-> "skip", tm |-> tm, cm |-> cm]

handle(tm, cm, t) ==
    CASE t.tx_type = "deposit" -> try_deposit(tm, cm, t)
      [] t.tx_type = "withdrawal" -> try_withdrawal(tm, cm, t)
      [] t.tx_type = "dispute" -> try_dispute(tm, cm, t)
      [] t.tx_type = "resolve" -> try_resolve(tm, cm, t)
      [] t.tx_type = "chargeback" -> try_chargeback(tm, cm, t)
      [] OTHER -> Skip(tm, cm)

Init ==
    /\ transactions_map = <<>>
    /\ client_data_map = <<>>
    /\ status = "running"
    /\ charged = {}
    /\ nread = 0
    /\ bulk = "none"
    /\ sat = {}

\* checked_add(1) is None: the dispute finds total_locks at u16::MAX
Saturates(cm, t, r) ==
    /\ t.tx_type = "dispute" /\ r.res = "ok"
    /\ cm[t.client_id].total_locks = U16MAX

\* one iteration of the loop of read_csv, for row t with outcome r
Iteration(t, r) ==
    /\ nread' = nread + 1
    /\ status' = IF r.res = "panic" THEN "panicked" ELSE status
    /\ transactions_map' = r.tm
    /\ client_data_map' = r.cm
    /\ charged' = IF t.tx_type = "chargeback" /\ r.res = "ok"
                  THEN charged \cup {t.tx_id} ELSE charged
    /\ sat' = IF Saturates(client_data_map, t, r)
              THEN sat \cup {t.client_id} ELSE sat
    /\ UNCHANGED bulk

Step(t) == Iteration(t, handle(transactions_map, client_data_map, t))

\* the feed has a row left, within the bounds
CanRead ==
    /\ status = "running"
    /\ nread < (IF bulk = "none" THEN MaxFeed ELSE MaxLongFeed)

Rows(kind) == {t \in Transaction : t.tx_type = kind}

Deposit == CanRead /\ \E t \in Rows("deposit") : Step(t)

Withdrawal == CanRead /\ \E t \in Rows("withdrawal") : Step(t)

Dispute == CanRead /\ \E t \in Rows("dispute") : Step(t)

Resolve == CanRead /\ \E t \in Rows("resolve") : Step(t)

Chargeback == CanRead /\ \E t \in Rows("chargeback") : Step(t)

\* a row of any other type: the default arm of the match
OtherKind == CanRead /\ \E t \in Rows("other") : Step(t)

\* a row that does not decode: row? returns the error and main exits
DecodeError ==
    /\ CanRead
    /\ status' = "aborted"
    /\ UNCHANGED <<transactions_map, client_data_map, charged, nread, bulk, sat>>

Next ==
    \/ Deposit
    \/ Withdrawal
    \/ Dispute
    \/ Resolve
    \/ Chargeback
    \/ OtherKind
    \/ DecodeError

Spec == Init /\ [][Next]_vars

(***************************************************************************)
(* Long feeds.  total_locks is a u16 and the ids are u32, so a feed can    *)
(* hold more open disputes of one client than the counter can count.  The  *)
(* three actions below are runs of U16MAX iterations of the loop of        *)
(* read_csv each, on rows that name U16MAX ids beyond TxIds:               *)
(*   BulkDeposit   the rows deposit,BulkClient,i,1 with fresh ids i,       *)
(*   BulkDispute   the rows dispute,BulkClient,i, for the same ids,        *)
(*   BulkResolve   the rows resolve,BulkClient,i, for the same ids.        *)
(* The other rows never name these ids, so of these entries of the ledger  *)
(* only their common state is kept, in bulk.  A run is taken where every   *)
(* row of it is accepted and every sum is exact (the balances are integers *)
(* below 2^53), so that the run adds up to one step.  A feed with a run in *)
(* it has at most MaxLongFeed rows that are read one by one.               *)
(***************************************************************************)
BulkClient == 1
BulkRows == U16MAX
One == F(0, 1)

\* the f64 value is an integer far below 2^53: adding ones to it is exact
Exact(v) == ~is_nan(v) /\ v[1] = 0

\* total_locks after n disputes, and after n resolves
lock_add_n(k, n) == IF k + n > U16MAX THEN U16MAX ELSE k + n
lock_sub_n(k, n) == IF k - n < 0 THEN 0 ELSE k - n

BulkDeposit ==
    /\ status = "running" /\ bulk = "none"
    /\ nread <= MaxLongFeed
    /\ IF BulkClient \in DOMAIN client_data_map
       THEN LET cd == client_data_map[BulkClient] IN
            /\ cd.total_locks = 0
            /\ Exact(cd.available) /\ Exact(cd.total)
            /\ client_data_map' = insert(client_data_map, BulkClient,
                  [cd EXCEPT !.available = FAdd(cd.available, F(0, BulkRows)),
                             !.total = FAdd(cd.total, F(0, BulkRows))])
       ELSE client_data_map' = insert(client_data_map, BulkClient,
                  ClientData(F(0, BulkRows), Zero, F(0, BulkRows), 0))
    /\ bulk' = "deposited"
    /\ UNCHANGED <<transactions_map, status, charged, nread, sat>>

BulkDispute ==
    /\ status = "running" /\ bulk = "deposited"
    /\ LET cd == client_data_map[BulkClient] IN
       /\ Exact(cd.available) /\ Exact(cd.held)
       /\ client_data_map' = insert(client_data_map, BulkClient,
             [cd EXCEPT !.available = FSub(cd.available, F(0, BulkRows)),
                        !.held = FAdd(cd.held, F(0, BulkRows)),
                        !.total_locks = lock_add_n(cd.total_locks, BulkRows)])
       /\ sat' = IF cd.total_locks + BulkRows > U16MAX
                 THEN sat \cup {BulkClient} ELSE sat
    /\ bulk' = "disputed"
    /\ UNCHANGED <<transactions_map, status, charged, nread>>

BulkResolve ==
    /\ status = "running" /\ bulk = "disputed"
    /\ LET cd == client_data_map[BulkClient] IN
       /\ Exact(cd.available) /\ Exact(cd.held)
       /\ client_data_map' = insert(client_data_map, BulkClient,
             [cd EXCEPT !.available = FAdd(cd.available, F(0, BulkRows)),
                        !.held = FSub(cd.held, F(0, BulkRows)),
                        !.total_locks = lock_sub_n(cd.total_locks, BulkRows)])
    /\ bulk' = "resolved"
    /\ UNCHANGED <<transactions_map, status, charged, nread, sat>>

NextLong ==
    \/ Next
    \/ BulkDeposit
    \/ BulkDispute
    \/ BulkResolve

SpecLong == Init /\ [][NextLong]_vars

TypeOK ==
    /\ status \in {"running", "panicked", "aborted"}
    /\ DOMAIN transactions_map \subseteq TxIds
    /\ DOMAIN client_data_map \subseteq ClientIds
    /\ charged \subseteq TxIds
    /\ nread \in 0..MaxFeed
    /\ bulk \in {"none", "deposited", "disputed", "resolved"}
    /\ sat \subseteq ClientIds

(***************************************************************************)
(* Vocabulary of the properties.  The properties speak of the row that     *)
(* read_csv may process next in a reachable state: Run(t) is what the      *)
(* processor does with row t in the current state.                         *)
(***************************************************************************)
Run(t) == handle(transactions_map, client_data_map, t)
Accounts == DOMAIN client_data_map
Ledger == DOMAIN transactions_map
MoneyKinds == {"deposit", "withdrawal"}
RefKinds == {"dispute", "resolve", "chargeback"}
\* outcome r of a row leaves both maps as they are
Same(r) == r.tm = transactions_map /\ r.cm = client_data_map
\* the row carries an amount and it is > 0
Positive(t) == ~is_none(t.amount) /\ FLt(Zero, unwrap(t.amount))
ChargedClients == {transactions_map[i].client_id : i \in charged}

(***************************************************************************)
(* C1: after any sequence of processed rows, every account has             *)
(* total == available + held, the sum taken in f64 as the code would, and  *)
(* a NaN total counted as equal to a NaN sum.                              *)
(***************************************************************************)
C1_TotalIsAvailablePlusHeld ==
    \A c \in Accounts :
        client_data_map[c].total =
            FAdd(client_data_map[c].available, client_data_map[c].held)

(***************************************************************************)
(* C2: once a chargeback has succeeded on a transaction of client c, no    *)
(* deposit or withdrawal of c is accepted any more, whatever rows came in  *)
(* between.                                                                *)
(***************************************************************************)
C2_ChargebackFreezesForever ==
    \A t \in Transaction :
        (t.tx_type \in MoneyKinds /\ t.client_id \in ChargedClients)
            => Run(t).res # "ok"

(***************************************************************************)
(* C3: a row a handler rejects leaves the ledger (entries and disputed     *)
(* flags) and all accounts (fields and set of accounts) as they were.      *)
(***************************************************************************)
Rejected(r) == r.res = "err"

C3_RejectionChangesNothing ==
    [](
    \A t \in Transaction : \A r \in {Run(t)} : Rejected(r) => Same(r)
    )

\* accounts are locked and unlocked, and a dispute of another client's
\* transaction is being rejected
C3_Witness ==
    /\ \E c \in Accounts : client_data_map[c].total_locks > 0
    /\ \E t \in Rows("dispute") :
        /\ t.tx_id \in Ledger
        /\ ~transactions_map[t.tx_id].is_disputed
        /\ transactions_map[t.tx_id].client_id # t.client_id
        /\ t.client_id \in Accounts
        /\ Run(t).res = "err"

(***************************************************************************)
(* C4: a deposit or withdrawal whose id is already in the ledger is        *)
(* rejected, whichever client and kind came first, and the entry of that   *)
(* id is left as it was.                                                   *)
(***************************************************************************)
C4_DuplicateIdRejected ==
    [](
    \A t \in Transaction :
        (t.tx_type \in MoneyKinds /\ t.tx_id \in Ledger)
            => \A r \in {Run(t)} : Rejected(r) /\ r.tm = transactions_map
    )

\* a deposit with a good amount is being rejected whose id belongs to an
\* accepted withdrawal of another client
C4_Witness ==
    \E t \in Rows("deposit") :
        /\ Positive(t)
        /\ t.tx_id \in Ledger
        /\ transactions_map[t.tx_id].tx_type = "withdrawal"
        /\ transactions_map[t.tx_id].client_id # t.client_id
        /\ Run(t).res = "err"

(***************************************************************************)
(* C5: in every reachable state, for every row that disputes an accepted   *)
(* transaction successfully, resolving it right after succeeds and gives   *)
(* back the account's available, held and total_locks and the entry's      *)
(* is_disputed = false.                                                    *)
(***************************************************************************)
RoundTrip(t) ==
    \A d \in {try_dispute(transactions_map, client_data_map, t)} :
        d.res = "ok" =>
            \A r \in {try_resolve(d.tm, d.cm, t)} :
                /\ r.res = "ok"
                /\ r.cm[t.client_id] = client_data_map[t.client_id]
                /\ r.tm[t.tx_id].is_disputed = FALSE

C5_DisputeResolveRoundTrip == \A t \in Rows("dispute") : RoundTrip(t)

(***************************************************************************)
(* C6: once a transaction has been charged back, no dispute, resolve or    *)
(* chargeback row naming it succeeds.                                      *)
(***************************************************************************)
C6_ChargedBackIsTerminal ==
    \A t \in Transaction :
        (t.tx_type \in RefKinds /\ t.tx_id \in charged) => Run(t).res # "ok"

(***************************************************************************)
(* C7: a deposit or withdrawal without an amount is rejected like any      *)
(* other bad row: nothing changes and the run goes on.                     *)
(***************************************************************************)
C7_MissingAmountIsRejected ==
    \A t \in Transaction :
        (t.tx_type \in MoneyKinds /\ is_none(t.amount))
            => \A r \in {Run(t)} : Rejected(r) /\ Same(r)

(***************************************************************************)
(* C8: a withdrawal is accepted iff its id is new, its amount is > 0, the  *)
(* account exists, is not locked and has available >= amount; then it      *)
(* takes the amount from available and total, leaves held and total_locks  *)
(* and records the row; asking for more than available changes nothing.    *)
(***************************************************************************)
WithdrawalOk(t) ==
    /\ t.tx_id \notin Ledger
    /\ Positive(t)
    /\ t.client_id \in Accounts
    /\ client_data_map[t.client_id].total_locks = 0
    /\ FLe(unwrap(t.amount), client_data_map[t.client_id].available)

\* the maps r after row t: only the account of t.client_id may differ, and
\* the ledger has gained exactly the row
Recorded(t, r) ==
    /\ DOMAIN r.cm = Accounts \cup {t.client_id}
    /\ \A c \in Accounts \ {t.client_id} : r.cm[c] = client_data_map[c]
    /\ DOMAIN r.tm = Ledger \cup {t.tx_id}
    /\ r.tm[t.tx_id] = t
    /\ \A i \in Ledger : r.tm[i] = transactions_map[i]

WithdrawalEffect(t, r) ==
    LET old == client_data_map[t.client_id]
        new == r.cm[t.client_id]
        amount == unwrap(t.amount)
    IN  /\ new.available = FSub(old.available, amount)
        /\ new.total = FSub(old.total, amount)
        /\ new.held = old.held
        /\ new.total_locks = old.total_locks
        /\ Recorded(t, r)

Overdraw(t) ==
    /\ ~is_none(t.amount)
    /\ t.client_id \in Accounts
    /\ FLt(client_data_map[t.client_id].available, unwrap(t.amount))

C8_Withdrawal ==
    [](
    \A t \in Rows("withdrawal") : \A r \in {Run(t)} :
        /\ (r.res = "ok") <=> WithdrawalOk(t)
        /\ (r.res = "ok") => WithdrawalEffect(t, r)
        /\ Overdraw(t) => (Rejected(r) /\ Same(r))
    )

\* of two withdrawals of a new id the account can pay one, which is accepted,
\* and not the other
C8_Witness ==
    \E t, u \in Rows("withdrawal") :
        /\ t.tx_id \notin Ledger /\ u.tx_id = t.tx_id
        /\ u.client_id = t.client_id
        /\ Run(t).res = "ok"
        /\ Positive(u) /\ Overdraw(u) /\ Run(u).res = "err"

(***************************************************************************)
(* C9: a deposit is accepted iff its id is new, its amount is > 0 and the  *)
(* client has no account or an account that is not locked; then it adds    *)
(* the amount to available and total (a new account starts with            *)
(* available = total = amount, held = 0, total_locks = 0) and records the  *)
(* row; a deposit into a locked account is rejected.                       *)
(***************************************************************************)
DepositOk(t) ==
    /\ t.tx_id \notin Ledger
    /\ Positive(t)
    /\ t.client_id \in Accounts => client_data_map[t.client_id].total_locks = 0

DepositEffect(t, r) ==
    LET new == r.cm[t.client_id]
        amount == unwrap(t.amount)
    IN  /\ IF t.client_id \in Accounts
           THEN LET old == client_data_map[t.client_id] IN
                /\ new.available = FAdd(old.available, amount)
                /\ new.total = FAdd(old.total, amount)
                /\ new.held = old.held
                /\ new.total_locks = old.total_locks
           ELSE new = ClientData(amount, Zero, amount, 0)
        /\ Recorded(t, r)

C9_Deposit ==
    \A t \in Rows("deposit") : \A r \in {Run(t)} :
        /\ (r.res = "ok") <=> DepositOk(t)
        /\ (r.res = "ok") => DepositEffect(t, r)

(***************************************************************************)
(* C10: an account exists only for a client with an accepted deposit in    *)
(* the ledger; withdrawal, dispute, resolve and chargeback rows never      *)
(* create an account, and a withdrawal of a client without an account is   *)
(* rejected and leaves the client without one.                             *)
(***************************************************************************)
AccountsComeFromDeposits ==
    \A c \in Accounts :
        \E i \in Ledger : /\ transactions_map[i].tx_type = "deposit"
                          /\ transactions_map[i].client_id = c

C10_OnlyDepositsCreateAccounts ==
    /\ AccountsComeFromDeposits
    /\ \A t \in Transaction :
        t.tx_type # "deposit"
            => \A r \in {Run(t)} :
               /\ DOMAIN r.cm = Accounts
               /\ (t.tx_type = "withdrawal" /\ t.client_id \notin Accounts)
                    => Rejected(r)

(***************************************************************************)
(* C11: the total_locks of every account is the number of entries of the   *)
(* ledger of that client whose is_disputed is true, so that an account is  *)
(* unfrozen exactly when none of its transactions is disputed.             *)
(***************************************************************************)
Disputed(c) ==
    {i \in Ledger : /\ transactions_map[i].client_id = c
                    /\ transactions_map[i].is_disputed}
OpenDisputes(c) ==
    Cardinality(Disputed(c))
        + (IF c = BulkClient /\ bulk = "disputed" THEN BulkRows ELSE 0)

LocksCountDisputes(c) ==
    /\ client_data_map[c].total_locks = OpenDisputes(c)
    /\ (client_data_map[c].total_locks = 0) <=> (OpenDisputes(c) = 0)

C11_LocksCountDisputes == \A c \in Accounts : LocksCountDisputes(c)

(***************************************************************************)
(* C12: a row of an unrecognized type, a dispute, resolve or chargeback    *)
(* whose id is not in the ledger, and a withdrawal, dispute, resolve or    *)
(* chargeback of a client without an account are not accepted and leave    *)
(* the ledger and every account as they were; no account is created.      *)
(***************************************************************************)
NoOpRow(t) ==
    \/ t.tx_type \notin MoneyKinds \cup RefKinds
    \/ t.tx_type \in RefKinds /\ t.tx_id \notin Ledger
    \/ t.tx_type \in {"withdrawal"} \cup RefKinds /\ t.client_id \notin Accounts

C12_NoOps ==
    [](
    \A t \in Transaction :
        NoOpRow(t) => \A r \in {Run(t)} : r.res # "ok" /\ Same(r)
    )

\* a ledger and an account exist; a dispute names an unknown id, a chargeback
\* of a known id names a client without an account, and a withdrawal with a
\* fresh id and a positive amount names that client
C12_Witness ==
    /\ \E t \in Rows("dispute") :
        t.tx_id \notin Ledger /\ t.client_id \in Accounts /\ Run(t).res = "err"
    /\ \E t \in Rows("chargeback") :
        /\ t.tx_id \in Ledger /\ t.client_id \notin Accounts
        /\ transactions_map[t.tx_id].is_disputed
        /\ Run(t).res = "err"
    /\ \E t \in Rows("withdrawal") :
        /\ t.tx_id \notin Ledger /\ t.client_id \notin Accounts
        /\ Positive(t) /\ Run(t).res = "err"
    /\ \E t \in Rows("other") : Run(t).res = "skip"

(***************************************************************************)
(* C13: the ledger only grows.  No row removes an entry; an entry is added *)
(* only by an accepted deposit or withdrawal, under the id of the row; a   *)
(* dispute, resolve or chargeback adds none and changes nothing of an      *)
(* entry but its is_disputed; a deposit or withdrawal changes no entry.    *)
(***************************************************************************)
Identity(e) == <<e.tx_id, e.tx_type, e.client_id, e.amount>>

\* what a row that changes the ledger may change
AppendOnlyChange(t, r) ==
    /\ Ledger \subseteq DOMAIN r.tm
    /\ DOMAIN r.tm # Ledger
         => /\ t.tx_type \in MoneyKinds /\ r.res = "ok"
            /\ DOMAIN r.tm = Ledger \cup {t.tx_id}
    /\ \A i \in Ledger :
        /\ Identity(r.tm[i]) = Identity(transactions_map[i])
        /\ t.tx_type \notin RefKinds => r.tm[i] = transactions_map[i]
        /\ r.tm[i] # transactions_map[i] => i = t.tx_id /\ r.res = "ok"

AppendOnly(t, r) == r.tm = transactions_map \/ AppendOnlyChange(t, r)

C13_LedgerAppendOnly ==
    [](
    \A t \in Transaction : \A r \in {Run(t)} : AppendOnly(t, r)
    )

\* a deposit and a withdrawal are in the ledger, one of them was disputed and
\* charged back, and the entry still is what was recorded, the flag apart
C13_Witness ==
    /\ \E i, j \in Ledger : /\ transactions_map[i].tx_type = "deposit"
                            /\ transactions_map[j].tx_type = "withdrawal"
    /\ \E i \in charged : /\ transactions_map[i].is_disputed
                          /\ transactions_map[i].tx_id = i

(***************************************************************************)
(* C14: a dispute is accepted exactly when the transaction it names is in  *)
(* the ledger, is not disputed and has the client_id of the dispute.  An   *)
(* accepted dispute sets is_disputed, takes the amount of the transaction  *)
(* from available and adds it to held, leaves total as it is and adds one  *)
(* to total_locks, also where the transaction is a withdrawal and          *)
(* available goes below zero.                                              *)
(***************************************************************************)
DisputeOk(t) ==
    /\ t.tx_id \in Ledger
    /\ ~transactions_map[t.tx_id].is_disputed
    /\ transactions_map[t.tx_id].client_id = t.client_id

\* the effect of the accepted dispute t whose outcome is r, with total_locks
\* going to locks
DisputeEffect(t, r, locks) ==
    LET te == transactions_map[t.tx_id]
        amount == unwrap(te.amount)
        cd == client_data_map[t.client_id]
        after == r.cm[t.client_id]
    IN  /\ r.tm = insert(transactions_map, t.tx_id, [te EXCEPT !.is_disputed = TRUE])
        /\ DOMAIN r.cm = Accounts
        /\ \A c \in Accounts \ {t.client_id} : r.cm[c] = client_data_map[c]
        /\ after.available = FSub(cd.available, amount)
        /\ after.held = FAdd(cd.held, amount)
        /\ after.total = cd.total
        /\ after.total_locks = locks

C14_Dispute ==
    \A t \in Rows("dispute") : \A r \in {Run(t)} :
        /\ (r.res = "ok") <=> DisputeOk(t)
        /\ (r.res = "ok")
             => DisputeEffect(t, r, client_data_map[t.client_id].total_locks + 1)

\* C14, amended: total_locks goes up by one unless it is u16::MAX, where it
\* stays
C14_DisputeBelowMax ==
    [](
    \A t \in Rows("dispute") : \A r \in {Run(t)} :
        /\ (r.res = "ok") <=> DisputeOk(t)
        /\ (r.res = "ok")
             => LET n == client_data_map[t.client_id].total_locks IN
                DisputeEffect(t, r, IF n < U16MAX THEN n + 1 ELSE U16MAX)
    )

\* a withdrawal was disputed: the account is locked once, holds the amount
\* and its available is below zero
C14_Witness ==
    \E i \in Ledger :
        LET te == transactions_map[i]
            cd == client_data_map[te.client_id]
        IN  /\ te.tx_type = "withdrawal" /\ te.is_disputed
            /\ cd.total_locks = 1
            /\ cd.held = unwrap(te.amount)
            /\ FLt(cd.available, Zero)

(***************************************************************************)
(* C15: an accepted chargeback takes the amount of the transaction from    *)
(* held and from total and changes nothing else: available, total_locks    *)
(* and the is_disputed of the transaction, which is true, stay.  So the    *)
(* account is frozen right after it, and a deposit of that client is not   *)
(* accepted.                                                               *)
(***************************************************************************)
ChargebackEffect(t, r) ==
    LET te == transactions_map[t.tx_id]
        amount == unwrap(te.amount)
        cd == client_data_map[t.client_id]
        after == r.cm[t.client_id]
    IN  /\ r.tm = transactions_map /\ te.is_disputed
        /\ DOMAIN r.cm = Accounts
        /\ \A c \in Accounts \ {t.client_id} : r.cm[c] = client_data_map[c]
        /\ after.held = FSub(cd.held, amount)
        /\ after.total = FSub(cd.total, amount)
        /\ after.available = cd.available
        /\ after.total_locks = cd.total_locks

StillFrozen(t, r) ==
    /\ r.cm[t.client_id].total_locks > 0
    /\ \A d \in Rows("deposit") :
        d.client_id = t.client_id => handle(r.tm, r.cm, d).res # "ok"

C15_Chargeback ==
    \A t \in Rows("chargeback") : \A r \in {Run(t)} :
        r.res = "ok" => ChargebackEffect(t, r) /\ StillFrozen(t, r)

(***************************************************************************)
(* C16: a chargeback of a transaction that was charged back before and is  *)
(* still disputed is accepted again and takes the amount from held and     *)
(* from total once more, so that held can go below zero.                   *)
(***************************************************************************)
C16_ChargebackRepeats ==
    [](
    \A t \in Rows("chargeback") :
        (/\ t.tx_id \in charged
         /\ transactions_map[t.tx_id].is_disputed
         /\ transactions_map[t.tx_id].client_id = t.client_id)
          => \A r \in {Run(t)} :
             LET amount == unwrap(transactions_map[t.tx_id].amount)
                 cd == client_data_map[t.client_id]
             IN  /\ r.res = "ok"
                 /\ r.cm[t.client_id].held = FSub(cd.held, amount)
                 /\ r.cm[t.client_id].total = FSub(cd.total, amount)
    )

\* a deposit was disputed and charged back, which left nothing held; the
\* chargeback of it that comes again is being accepted and leaves held and
\* total the amount below zero
C16_Witness ==
    \E t \in Rows("chargeback") :
        /\ t.tx_id \in charged
        /\ LET te == transactions_map[t.tx_id]
               cd == client_data_map[t.client_id]
               after == Run(t).cm[t.client_id]
           IN  /\ te.tx_type = "deposit" /\ te.is_disputed
               /\ te.client_id = t.client_id
               /\ ~is_nan(unwrap(te.amount))
               /\ cd.total_locks = 1
               /\ cd.held = Zero /\ cd.total = Zero
               /\ Run(t).res = "ok"
               /\ FLt(after.held, Zero)
               /\ after.held = FNeg(unwrap(te.amount))
               /\ after.total = after.held

(***************************************************************************)
(* C17: total_locks stays within 0..u16::MAX.  An accepted dispute of an   *)
(* account whose total_locks is u16::MAX leaves it there, and an accepted  *)
(* resolve of an account whose total_locks is 0 leaves it at 0.            *)
(***************************************************************************)
LocksAfter(t, r) == r.cm[t.client_id].total_locks

C17_LocksSaturate ==
    [](
    /\ \A c \in Accounts : client_data_map[c].total_locks \in 0..U16MAX
    /\ \A t \in Rows("dispute") \cup Rows("resolve") : \A r \in {Run(t)} :
        r.res = "ok"
          => LET n == client_data_map[t.client_id].total_locks IN
             /\ LocksAfter(t, r) \in 0..U16MAX
             /\ (t.tx_type = "dispute" /\ n = U16MAX) => LocksAfter(t, r) = U16MAX
             /\ (t.tx_type = "resolve" /\ n = 0) => LocksAfter(t, r) = 0
             /\ (t.tx_type = "dispute" /\ n < U16MAX) => LocksAfter(t, r) = n + 1
             /\ (t.tx_type = "resolve" /\ n > 0) => LocksAfter(t, r) = n - 1
    )

\* a dispute of the client was accepted at total_locks = u16::MAX, the
\* counter is back at 0 with a transaction still disputed, and the resolve of
\* that transaction is being accepted
C17_Witness ==
    \E t \in Rows("resolve") :
        /\ t.client_id \in sat
        /\ client_data_map[t.client_id].total_locks = 0
        /\ t.tx_id \in Disputed(t.client_id)
        /\ Run(t).res = "ok"

(***************************************************************************)
(* C18: a row of client c changes the account of no other client.  A       *)
(* dispute, resolve or chargeback whose client_id is not that of the       *)
(* transaction it names is rejected, and neither the is_disputed of the    *)
(* transaction nor the account of either client changes.                   *)
(***************************************************************************)
OthersUntouched(t, r) ==
    \/ r.cm = client_data_map
    \/ /\ DOMAIN r.cm \subseteq Accounts \cup {t.client_id}
       /\ \A c \in Accounts \ {t.client_id} :
           c \in DOMAIN r.cm /\ r.cm[c] = client_data_map[c]

ForeignRef(t) ==
    /\ t.tx_type \in RefKinds
    /\ t.tx_id \in Ledger
    /\ transactions_map[t.tx_id].client_id # t.client_id

C18_ClientIsolation ==
    [](
    \A t \in Transaction : \A r \in {Run(t)} :
        /\ OthersUntouched(t, r)
        /\ ForeignRef(t) => Rejected(r) /\ Same(r)
    )

\* two clients have accounts, a transaction of one of them is disputed, and
\* the resolve and the chargeback of it that the other client sends are
\* being rejected
C18_Witness ==
    \E t \in Rows("resolve"), u \in Rows("chargeback") :
        /\ t.tx_id = u.tx_id /\ t.client_id = u.client_id
        /\ ForeignRef(t)
        /\ transactions_map[t.tx_id].is_disputed
        /\ {t.client_id, transactions_map[t.tx_id].client_id} \subseteq Accounts
        /\ Run(t).res = "err" /\ Run(u).res = "err"

(***************************************************************************)
(* C19: as long as total_locks has not hit u16::MAX in a dispute, an       *)
(* account with total_locks = 0 has available >= 0.0; so the check         *)
(* available < 0.0 of try_withdrawal never is the one that rejects a       *)
(* withdrawal.                                                             *)
(***************************************************************************)
\* the check of line 219 is reached by the withdrawal t and rejects it
NegativeDecides(t) ==
    /\ t.tx_id \notin Ledger
    /\ Positive(t)
    /\ t.client_id \in Accounts
    /\ client_data_map[t.client_id].total_locks = 0
    /\ FLt(client_data_map[t.client_id].available, Zero)

C19_UnlockedIsNotNegative ==
    /\ \A c \in Accounts \ sat :
        client_data_map[c].total_locks = 0
            => FLe(Zero, client_data_map[c].available)
    /\ \A t \in Rows("withdrawal") :
        t.client_id \notin sat => ~NegativeDecides(t)

(***************************************************************************)
(* C20: every entry of the ledger is a deposit or a withdrawal, has an     *)
(* amount, which is above zero, and belongs to a client with an account.   *)
(* So a dispute, resolve or chargeback that names a transaction of the     *)
(* ledger and its client finds the account and the amount.                 *)
(***************************************************************************)
WellFormed(e) ==
    /\ e.tx_type \in MoneyKinds
    /\ ~is_none(e.amount)
    /\ FLt(Zero, unwrap(e.amount))
    /\ e.client_id \in Accounts

C20_LedgerEntriesWellFormed ==
    /\ \A i \in Ledger : WellFormed(transactions_map[i])
    /\ \A t \in Transaction :
        (/\ t.tx_type \in RefKinds
         /\ t.tx_id \in Ledger
         /\ transactions_map[t.tx_id].client_id = t.client_id)
          => t.client_id \in Accounts /\ Run(t).res # "panic"

====
